---- MODULE Spec2Model ----
(***************************************************************************)
(* Model of main.py: a FastAPI service that reads ERC-20 balances through  *)
(* a web3 node, ranks addresses by balance and looks up the date of the    *)
(* last Transfer event of an address through the Polygonscan log API.      *)
(*                                                                         *)
(* Python values are modelled as follows.                                  *)
(*  - the result of evaluating an expression or awaiting a coroutine is an *)
(*    outcome: Return(v) or Raise(e);                                      *)
(*  - a str that the service builds is a sequence of text chunks;          *)
(*    the addresses of a request stay opaque strings;                      *)
(*  - the quotient raw / 10 ** d is the decimal [num |-> raw, exp |-> d];  *)
(*    the int 0 is [num |-> 0, exp |-> 0].                                 *)
(***************************************************************************)
EXTENDS Integers, Sequences, FiniteSets, TLC

\* ------------------------------------------------------------- bounds
\* Longest address list of a request.
MaxLen == 3
\* N of a request ranges over -MaxNeg .. MaxLen + 1.
MaxNeg == 1
\* Requests in flight at once in SpecServer.
MaxReqs == 2

\* ---------------------------------------------------- python outcomes
Return(v) == [raised |-> FALSE, val |-> v]
Raise(e) == [raised |-> TRUE, val |-> e]

\* ---------------------------------------------------------- the chain
\* The request strings used as addresses: two spellings of one account,
\* a second account, and a string that is no address.
Addr == {"0xAa", "0xaa", "0xBb", "bad"}

\* web3.to_checksum_address: the checksummed spelling, or an exception.
to_checksum_address(a) ==
    CASE a \in {"0xAa", "0xaa"} -> Return("0xAa")
      [] a \in {"0xBb", "0xbb"} -> Return("0xBb")
      [] a \in {"0xT1", "0xt1"} -> Return("0xT1")
      [] a \in {"0xU2", "0xu2"} -> Return("0xU2")
      [] OTHER -> Raise("InvalidAddress")

\* str.lower on the hex part of a checksummed address (checksum_address[2:].lower()).
LowerHex(cs) ==
    CASE cs = "0xAa" -> "aa"
      [] cs = "0xBb" -> "bb"
      [] cs = "0xT1" -> "t1"
      [] cs = "0xU2" -> "u2"

\* The token contract's raw balances, by checksummed account.
ChainBalance(cs) ==
    CASE cs = "0xAa" -> 5
      [] cs = "0xBb" -> 10
      [] OTHER -> 0

\* The ERC-20 contracts deployed on the chain, by checksummed address.
TokenAddr == {"0xT1", "0xu2", "bad"}
ChainToken(cs) ==
    CASE cs = "0xT1" -> [symbol |-> <<"TKN">>, name |-> <<"Token">>,
                         totalSupply |-> 1000, decimals |-> 18]
      [] cs = "0xU2" -> [symbol |-> <<"USD">>, name |-> <<"Dollar">>,
                         totalSupply |-> 500, decimals |-> 6]

\* The timestamp of a block (web3.eth.get_block(n)["timestamp"]).
ChainBlockTimestamp(n) == 1700000000 + 2 * n

\* ------------------------------------------------------------ numbers
Decimals18 == 18
Zero == [num |-> 0, exp |-> 0]
\* raw / (10 ** d)
TrueDiv(raw, d) == [num |-> raw, exp |-> d]
\* a < b for the balances of one request: the int 0 or quotients by 10 ** 18,
\* so the numerators decide. (Float division rounds monotonically: it keeps
\* this order and can only make nearby balances equal.)
NumLess(a, b) == a.num < b.num

Min(a, b) == IF a < b THEN a ELSE b
Max(a, b) == IF a > b THEN a ELSE b

\* ------------------------------------------------ check_address_balance
\* The try block: checksum, remote read, division. reply is the outcome of
\* token_contract.functions.getBalance(checksum).call().
check_address_balance_try(address, reply) ==
    LET checksum == to_checksum_address(address) IN
    IF checksum.raised THEN checksum
    ELSE IF reply.raised THEN reply
    ELSE Return(TrueDiv(reply.val, Decimals18))

check_address_balance_no_catch(address, reply) == check_address_balance_try(address, reply)

\* except Exception: print, return 0.
check_address_balance(address, reply) ==
    LET r == check_address_balance_try(address, reply) IN
    IF r.raised THEN Return(Zero) ELSE r

\* The outcomes the remote read of an address can have.
BalanceReplies(address) ==
    LET checksum == to_checksum_address(address) IN
    IF checksum.raised THEN {Raise("not called")}
    ELSE {Return(ChainBalance(checksum.val)), Raise("rpc error")}

\* -------------------------------------------------------- get_token_info
\* contract.functions.<fn>().call(): env[fn] tells whether the read succeeds.
ContractCall(checksum, fn, env) ==
    IF env[fn] THEN Return(ChainToken(checksum)[fn])
    ELSE Raise(<<fn, " call failed">>)

\* The try block: checksum, the four reads in order, the division, the body.
get_token_info_try(token_address, env) ==
    LET checksum == to_checksum_address(token_address) IN
    IF checksum.raised THEN Raise(<<checksum.val>>) ELSE
    LET symbol == ContractCall(checksum.val, "symbol", env) IN
    IF symbol.raised THEN symbol ELSE
    LET name == ContractCall(checksum.val, "name", env) IN
    IF name.raised THEN name ELSE
    LET total_supply == ContractCall(checksum.val, "totalSupply", env) IN
    IF total_supply.raised THEN total_supply ELSE
    LET decimals == ContractCall(checksum.val, "decimals", env) IN
    IF decimals.raised THEN decimals ELSE
    Return([symbol |-> symbol.val,
            name |-> name.val,
            totalSupply |-> TrueDiv(total_supply.val, decimals.val)])

get_token_info_no_catch(token_address, env) == get_token_info_try(token_address, env)

\* except Exception as e: return {"error": str(e)}
get_token_info(token_address, env) ==
    LET r == get_token_info_try(token_address, env) IN
    IF r.raised THEN Return([error |-> r.val]) ELSE r

\* The outcomes of the four reads.
TokenEnvs == [symbol : BOOLEAN, name : BOOLEAN, totalSupply : BOOLEAN, decimals : BOOLEAN]

\* ------------------------------------------------------------ hex, dates
HexDigits == <<"0", "1", "2", "3", "4", "5", "6", "7", "8", "9",
               "a", "b", "c", "d", "e", "f">>
IsHexDigit(c) == \E i \in 1..Len(HexDigits) : HexDigits[i] = c
HexDigitValue(c) == (CHOOSE i \in 1..Len(HexDigits) : HexDigits[i] = c) - 1

RECURSIVE HexFold(_, _)
HexFold(s, acc) ==
    IF s = <<>> THEN acc ELSE HexFold(Tail(s), 16 * acc + HexDigitValue(Head(s)))

\* int(s, 16): an optional "0x" prefix, then at least one hex digit.
HexInt(s) ==
    LET digits == IF Len(s) >= 2 /\ s[1] = "0" /\ s[2] = "x"
                  THEN SubSeq(s, 3, Len(s)) ELSE s IN
    IF digits = <<>> \/ \E i \in 1..Len(digits) : ~IsHexDigit(digits[i])
    THEN Raise("ValueError")
    ELSE Return(HexFold(digits, 0))

\* datetime.datetime(*args): year, month and day are required.
DatetimeNew(args) ==
    IF Len(args) < 3 THEN Raise("TypeError")
    ELSE Return([year |-> args[1], month |-> args[2], day |-> args[3],
                 hour |-> IF Len(args) >= 4 THEN args[4] ELSE 0,
                 minute |-> IF Len(args) >= 5 THEN args[5] ELSE 0,
                 second |-> IF Len(args) >= 6 THEN args[6] ELSE 0])

Pad2(n) == <<HexDigits[((n \div 10) % 10) + 1], HexDigits[(n % 10) + 1]>>
Pad4(n) == Pad2(n \div 100) \o Pad2(n % 100)
\* dt.strftime("%Y-%m-%d %H:%M:%S")
Strftime(dt) ==
    Pad4(dt.year) \o <<"-">> \o Pad2(dt.month) \o <<"-">> \o Pad2(dt.day) \o <<" ">>
    \o Pad2(dt.hour) \o <<":">> \o Pad2(dt.minute) \o <<":">> \o Pad2(dt.second)

NoTransactionsFound == <<"No transactions found">>
ErrorRetrieving == <<"Error retrieving transaction date">>

\* ----------------------------------------------- get_last_transaction_date
\* The key of max(): (int(e["blockNumber"], 16), int(e["transactionIndex"], 16)).
EventKey(e) ==
    IF "blockNumber" \notin DOMAIN e THEN Raise("KeyError") ELSE
    LET b == HexInt(e.blockNumber) IN
    IF b.raised THEN b ELSE
    IF "transactionIndex" \notin DOMAIN e THEN Raise("KeyError") ELSE
    LET t == HexInt(e.transactionIndex) IN
    IF t.raised THEN t ELSE Return(<<b.val, t.val>>)

\* Tuple comparison k1 < k2.
KeyLess(k1, k2) == k1[1] < k2[1] \/ (k1[1] = k2[1] /\ k1[2] < k2[2])

\* max(events, key=...): the first event whose key no other exceeds; a key
\* that cannot be computed raises, and so does an empty list.
LatestEvent(events) ==
    IF events = <<>> THEN Raise("ValueError") ELSE
    IF \E i \in 1..Len(events) : EventKey(events[i]).raised
    THEN EventKey(events[CHOOSE i \in 1..Len(events) :
                            /\ EventKey(events[i]).raised
                            /\ \A j \in 1..(i - 1) : ~EventKey(events[j]).raised])
    ELSE LET best == CHOOSE i \in 1..Len(events) :
                        /\ \A j \in 1..Len(events) :
                              ~KeyLess(EventKey(events[i]).val, EventKey(events[j]).val)
                        /\ \A j \in 1..(i - 1) :
                              KeyLess(EventKey(events[j]).val, EventKey(events[i]).val)
         IN Return(events[best])

WindowHours == 6
blocks_per_hour == 3600 \div 2

\* The getLogs query string, as its parameters.
LogsUrl(from_block, padded_address) ==
    [module |-> "logs", action |-> "getLogs",
     address |-> "0x1a9b54A3075119f1546C52cA0940551A6ce5d2D0",
     fromBlock |-> from_block, toBlock |-> "latest",
     topic0 |-> "0xddf252ad1be2c89b69c2b068fc378daa952ba7f163c4a11628f55a4df523b3ef",
     topic0_1_opr |-> "or", topic1 |-> padded_address,
     topic0_2_opr |-> "or", topic2 |-> padded_address]

\* web3.eth.get_block(n): env.block tells whether the read succeeds.
GetBlock(n, env) ==
    IF env.block THEN Return([number |-> n, timestamp |-> ChainBlockTimestamp(n)])
    ELSE Raise("rpc error")

NoLogsBothNeeded(data) ==
    IF "status" \notin DOMAIN data THEN Raise("KeyError")
    ELSE IF data.status = "1" THEN Return(FALSE)
    ELSE IF "result" \notin DOMAIN data THEN Raise("KeyError")
    ELSE Return(Len(data.result) = 0)

\* if data["status"] != "1" or not data["result"]
NoLogs(data) ==
    IF "status" \notin DOMAIN data THEN Raise("KeyError")
    ELSE IF data.status # "1" THEN Return(TRUE)
    ELSE IF "result" \notin DOMAIN data THEN Raise("KeyError")
    ELSE Return(Len(data.result) = 0)

\* The part of the try block after the response is parsed.
\* calls lists the remote calls made so far, in order.
FromResponse(data, env, calls) ==
    LET none == NoLogs(data) IN
    IF none.raised THEN [out |-> none, calls |-> calls] ELSE
    IF none.val THEN [out |-> Return(NoTransactionsFound), calls |-> calls] ELSE
    LET latest_event == LatestEvent(data.result) IN
    IF latest_event.raised THEN [out |-> latest_event, calls |-> calls] ELSE
    LET block_number == HexInt(latest_event.val.blockNumber).val
        block == GetBlock(block_number, env)
        calls3 == Append(calls, [op |-> "eth_getBlockByNumber", arg |-> block_number])
    IN
    IF block.raised THEN [out |-> block, calls |-> calls3] ELSE
    LET timestamp == block.val.timestamp
        dt == DatetimeNew(<<timestamp>>)
    IN
    IF dt.raised THEN [out |-> dt, calls |-> calls3]
    ELSE [out |-> Return(Strftime(dt.val)), calls |-> calls3]

\* The try block. env.head is the outcome of web3.eth.block_number, env.http
\* the outcome of the GET and of response.json().
get_last_transaction_date_try(address, env) ==
    LET checksum_address == to_checksum_address(address) IN
    IF checksum_address.raised THEN [out |-> checksum_address, calls |-> <<>>] ELSE
    LET padded_address == <<"0x000000000000000000000000", LowerHex(checksum_address.val)>>
        calls1 == <<[op |-> "eth_blockNumber", arg |-> 0]>>
    IN
    IF env.head.raised THEN [out |-> env.head, calls |-> calls1] ELSE
    LET current_block == env.head.val
        from_block == current_block - (WindowHours * blocks_per_hour)
        url == LogsUrl(from_block, padded_address)
        calls2 == Append(calls1, [op |-> "getLogs", arg |-> url])
    IN
    IF env.http.raised THEN [out |-> env.http, calls |-> calls2]
    ELSE FromResponse(env.http.val, env, calls2)

get_last_transaction_date_no_catch(address, env) == get_last_transaction_date_try(address, env)

\* except Exception: print, return "Error retrieving transaction date".
get_last_transaction_date(address, env) ==
    LET r == get_last_transaction_date_try(address, env) IN
    IF r.out.raised THEN [out |-> Return(ErrorRetrieving), calls |-> r.calls] ELSE r

\* ---------------------------------------------------------------- ranking
GatherAsCompleted(tasks, completed) ==
    [i \in 1..Len(tasks) |-> tasks[completed[i]].result.val]

\* asyncio.gather(*tasks): the results in the order of the awaitables given,
\* whatever the order (completed) in which they finished.
Gather(tasks, completed) == [i \in 1..Len(tasks) |-> tasks[i].result.val]

\* list(zip(data.addresses, balances))
Zip(addresses, balances) ==
    [i \in 1..Min(Len(addresses), Len(balances)) |-> <<addresses[i], balances[i]>>]

\* x goes before the first pair whose balance is smaller, after its equals.
InsertDesc(s, x) ==
    IF \E i \in 1..Len(s) : NumLess(s[i][2], x[2])
    THEN LET k == CHOOSE i \in 1..Len(s) :
                     /\ NumLess(s[i][2], x[2])
                     /\ \A j \in 1..(i - 1) : ~NumLess(s[j][2], x[2])
         IN SubSeq(s, 1, k - 1) \o <<x>> \o SubSeq(s, k, Len(s))
    ELSE Append(s, x)

\* An ascending stable sort read backwards: descending, equal balances reversed.
RECURSIVE SortedAscendingReversed(_)
SortedAscendingReversed(pairs) ==
    IF pairs = <<>> THEN <<>>
    ELSE InsertDesc(SortedAscendingReversed(SubSeq(pairs, 2, Len(pairs))), pairs[1])

\* sorted(pairs, key=lambda x: x[1], reverse=True): descending and stable.
RECURSIVE SortedByBalance(_)
SortedByBalance(pairs) ==
    IF pairs = <<>> THEN <<>>
    ELSE InsertDesc(SortedByBalance(SubSeq(pairs, 1, Len(pairs) - 1)), pairs[Len(pairs)])

\* seq[:n]
SlicePrefix(seq, n) ==
    IF n >= 0 THEN SubSeq(seq, 1, Min(n, Len(seq)))
    ELSE SubSeq(seq, 1, Max(Len(seq) + n, 0))

\* ----------------------------------------------------------------- state
VARIABLES
    app_state,      \* the lifespan: "starting", "running" or "failed"
    token_symbol,   \* app.state.token_symbol
    reqs,           \* the requests being handled, by connection
    call,           \* a direct call of a coroutine: its arguments
    ret             \* and what it returned

vars == <<app_state, token_symbol, reqs, call, ret>>

NoSymbol == <<>>
NoResponse == [status |-> 0]
NoCall == [fn |-> "none"]
NoRet == [pending |-> TRUE]

Idle == [endpoint |-> "none", pc |-> "idle", N |-> 0, addresses |-> <<>>,
         token_address |-> "", tasks |-> <<>>, completed |-> <<>>,
         balances |-> <<>>, sorted_addresses |-> <<>>, inflight |-> {},
         top_with_transactions |-> <<>>, response |-> NoResponse]

BatchEndpoints == {"get_balance_batch", "get_top", "get_top_with_transactions"}

\* The sequences of at most n different elements of S.
RECURSIVE SeqsUpTo(_, _)
SeqsUpTo(S, n) ==
    IF n = 0 THEN {<<>>}
    ELSE LET shorter == SeqsUpTo(S, n - 1) IN
         shorter \cup UNION {{Append(s, x) : x \in S \ {s[i] : i \in 1..Len(s)}} :
                                s \in {t \in shorter : Len(t) = n - 1}}

\* AddressList bodies: N and addresses.
Bodies == [N : (0 - MaxNeg)..(MaxLen + 1), addresses : SeqsUpTo(Addr, MaxLen)]
SmallBodies == [N : {1}, addresses : {<<"0xAa">>, <<"bad">>}]

Responses ==
    LET ev(b, t) == [blockNumber |-> b, transactionIndex |-> t] IN
    { [status |-> "0", message |-> "No records found", result |-> <<>>],
      [status |-> "0", message |-> "NOTOK", result |-> <<[text |-> "rate limit"]>>],
      [status |-> "1", message |-> "OK", result |-> <<>>],
      [status |-> "1", message |-> "OK",
       result |-> <<ev(<<"0", "x", "9">>, <<"0", "x", "5">>),
                    ev(<<"0", "x", "1", "0">>, <<"0", "x", "1">>),
                    ev(<<"0", "x", "1", "0">>, <<"0", "x", "0">>)>>],
      [status |-> "1", message |-> "OK",
       result |-> <<ev(<<"0", "x", "a">>, <<"0", "x", "2">>)>>],
      [status |-> "1", message |-> "OK",
       result |-> <<ev(<<"0", "x", "a">>, <<"0", "x", "z">>)>>],
      [status |-> "1", message |-> "OK", result |-> <<[text |-> "no fields"]>>],
      [message |-> "no status", result |-> <<>>] }

LookupEnvs ==
    [head : {Return(50000), Raise("rpc error")},
     http : {Raise("ClientError"), Raise("JSONDecodeError")} \cup {Return(d) : d \in Responses},
     block : BOOLEAN]

Calls ==
    {[fn |-> "get_last_transaction_date", address |-> a, env |-> e] :
        a \in Addr, e \in LookupEnvs}
    \cup {[fn |-> "get_token_info", address |-> a, env |-> e] :
        a \in TokenAddr, e \in TokenEnvs}

\* --------------------------------------------------------------- lifespan
\* app.state.token_symbol = await token_contract.functions.symbol().call()
lifespan ==
    /\ app_state = "starting"
    /\ \E ok \in BOOLEAN :
          LET symbol == ContractCall("0xT1", "symbol", [symbol |-> ok]) IN
          IF symbol.raised
          THEN app_state' = "failed" /\ UNCHANGED token_symbol
          ELSE app_state' = "running" /\ token_symbol' = symbol.val
    /\ UNCHANGED <<reqs, call, ret>>

\* --------------------------------------------------------------- handlers
Set(r, q) == reqs' = [reqs EXCEPT ![r] = q]

\* A request to get_token_info arrives.
RecvTokenInfo(r) ==
    /\ app_state = "running"
    /\ reqs[r].pc = "idle"
    /\ \E a \in TokenAddr :
          Set(r, [Idle EXCEPT !.endpoint = "get_token_info", !.pc = "info",
                              !.token_address = a])
    /\ UNCHANGED <<app_state, token_symbol, call, ret>>

ReturnTokenInfoCachingSymbol(r) ==
    /\ reqs[r].pc = "info"
    /\ \E env \in TokenEnvs :
          LET res == get_token_info(reqs[r].token_address, env) IN
          /\ Set(r, [reqs[r] EXCEPT !.pc = "responded",
                                    !.response = [status |-> 200, body |-> res.val]])
          /\ token_symbol' = IF "symbol" \in DOMAIN res.val THEN res.val.symbol
                             ELSE token_symbol
    /\ UNCHANGED <<app_state, call, ret>>

\* get_token_info returns.
ReturnTokenInfo(r) ==
    /\ reqs[r].pc = "info"
    /\ \E env \in TokenEnvs :
          LET res == get_token_info(reqs[r].token_address, env) IN
          IF res.raised
          THEN Set(r, [reqs[r] EXCEPT !.pc = "aborted", !.response = [status |-> 500]])
          ELSE Set(r, [reqs[r] EXCEPT !.pc = "responded",
                                      !.response = [status |-> 200, body |-> res.val]])
    /\ UNCHANGED <<app_state, token_symbol, call, ret>>

\* A request with an AddressList body arrives: one coroutine per address.
RecvAddressList(r, bodies) ==
    /\ app_state = "running"
    /\ reqs[r].pc = "idle"
    /\ \E ep \in BatchEndpoints, data \in bodies :
          Set(r, [Idle EXCEPT
                    !.endpoint = ep, !.pc = "gather", !.N = data.N,
                    !.addresses = data.addresses,
                    !.tasks = [i \in 1..Len(data.addresses) |->
                                 [state |-> "pending", address |-> data.addresses[i]]]])
    /\ UNCHANGED <<app_state, token_symbol, call, ret>>

\* One check_address_balance coroutine finishes.
TaskComplete(r) ==
    /\ reqs[r].pc = "gather"
    /\ \E i \in 1..Len(reqs[r].tasks) :
          /\ reqs[r].tasks[i].state = "pending"
          /\ \E reply \in BalanceReplies(reqs[r].addresses[i]) :
                Set(r, [reqs[r] EXCEPT
                          !.tasks[i] = [state |-> "done",
                                        address |-> reqs[r].addresses[i],
                                        reply |-> reply,
                                        result |-> check_address_balance(reqs[r].addresses[i], reply)],
                          !.completed = Append(@, i)])
    /\ UNCHANGED <<app_state, token_symbol, call, ret>>

\* return {"balances": balances, "symbol": request.app.state.token_symbol}
BatchResponse(balances, symbol) ==
    [status |-> 200, body |-> [balances |-> balances, symbol |-> symbol]]

\* return {"top_addresses": sorted_addresses[:n]}
TopResponse(sorted_addresses, n) ==
    [status |-> 200, body |-> [top_addresses |-> SlicePrefix(sorted_addresses, n)]]

\* balances = await asyncio.gather(*tasks): every coroutine has finished; an
\* exception of one of them is raised in the handler.
GatherDone(r) ==
    LET q == reqs[r] IN
    /\ q.pc = "gather"
    /\ \A i \in 1..Len(q.tasks) : q.tasks[i].state = "done"
    /\ IF \E i \in 1..Len(q.tasks) : q.tasks[i].result.raised
       THEN Set(r, [q EXCEPT !.pc = "aborted", !.response = [status |-> 500]])
       ELSE Set(r, [q EXCEPT !.pc = "gathered",
                             !.balances = Gather(q.tasks, q.completed)])
    /\ UNCHANGED <<app_state, token_symbol, call, ret>>

\* The handler runs on from the gather to its return or to its loop.
AfterGather(r) ==
    LET q == reqs[r]
        sorted_addresses == SortedByBalance(Zip(q.addresses, q.balances))
    IN
    /\ q.pc = "gathered"
    /\ CASE q.endpoint = "get_balance_batch" ->
              Set(r, [q EXCEPT !.pc = "responded", !.completed = <<>>,
                               !.response = BatchResponse(q.balances, token_symbol)])
         [] q.endpoint = "get_top" ->
              Set(r, [q EXCEPT !.pc = "responded", !.completed = <<>>,
                               !.sorted_addresses = sorted_addresses,
                               !.response = TopResponse(sorted_addresses, q.N)])
         [] q.endpoint = "get_top_with_transactions" ->
              Set(r, [q EXCEPT !.pc = "loop", !.completed = <<>>,
                               !.sorted_addresses = sorted_addresses,
                               !.top_with_transactions = <<>>])
    /\ UNCHANGED <<app_state, token_symbol, call, ret>>

\* The entries the loop runs over: sorted_addresses[:data.N].
LoopEntries(q) == SlicePrefix(q.sorted_addresses, q.N)

NextLookupFanOut(q) ==
    {k \in 1..Len(LoopEntries(q)) :
        k \notin q.inflight /\ k > Len(q.top_with_transactions) + Cardinality(q.inflight)}

\* The entry whose lookup the loop may start now: the handler awaits each
\* lookup before it takes the next entry.
NextLookup(q) ==
    IF q.inflight = {} /\ Len(q.top_with_transactions) < Len(LoopEntries(q))
    THEN {Len(q.top_with_transactions) + 1}
    ELSE {}

\* await get_last_transaction_date(address): the coroutine starts.
LookupStart(r) ==
    /\ reqs[r].pc = "loop"
    /\ \E k \in NextLookup(reqs[r]) :
          Set(r, [reqs[r] EXCEPT !.inflight = @ \cup {k}])
    /\ UNCHANGED <<app_state, token_symbol, call, ret>>

\* The lookup returns and its entry is appended.
LookupReturn(r) ==
    LET q == reqs[r] IN
    /\ q.pc = "loop"
    /\ \E k \in q.inflight, env \in LookupEnvs :
          LET entry == LoopEntries(q)[k]
              res == get_last_transaction_date(entry[1], env)
          IN IF res.out.raised
             THEN Set(r, [q EXCEPT !.pc = "aborted", !.inflight = {},
                                   !.response = [status |-> 500]])
             ELSE Set(r, [q EXCEPT !.inflight = @ \ {k},
                                   !.top_with_transactions =
                                       Append(@, <<entry[1], entry[2], res.out.val>>)])
    /\ UNCHANGED <<app_state, token_symbol, call, ret>>

\* return {"top_addresses_with_transactions": top_with_transactions}
LoopDone(r) ==
    LET q == reqs[r] IN
    /\ q.pc = "loop"
    /\ q.inflight = {}
    /\ NextLookup(q) = {}
    /\ Set(r, [q EXCEPT !.pc = "responded",
                        !.response = [status |-> 200,
                                      body |-> [top_addresses_with_transactions |->
                                                   q.top_with_transactions]]])
    /\ UNCHANGED <<app_state, token_symbol, call, ret>>

\* The response is sent and the connection takes the next request.
Deliver(r) ==
    /\ reqs[r].pc \in {"responded", "aborted"}
    /\ Set(r, Idle)
    /\ UNCHANGED <<app_state, token_symbol, call, ret>>

\* ------------------------------------------------------------ direct calls
CallGetLastTransactionDate ==
    /\ call.fn = "get_last_transaction_date"
    /\ ret = NoRet
    /\ ret' = get_last_transaction_date(call.address, call.env)
    /\ UNCHANGED <<app_state, token_symbol, reqs, call>>

CallGetTokenInfo ==
    /\ call.fn = "get_token_info"
    /\ ret = NoRet
    /\ ret' = [out |-> get_token_info(call.address, call.env), calls |-> <<>>]
    /\ UNCHANGED <<app_state, token_symbol, reqs, call>>

\* ---------------------------------------------------------- specifications
\* The service with one request at a time, over every AddressList body.
Init ==
    /\ app_state = "starting"
    /\ token_symbol = NoSymbol
    /\ reqs = [r \in {1} |-> Idle]
    /\ call = NoCall
    /\ ret = NoRet

Next ==
    \/ lifespan
    \/ RecvTokenInfo(1)
    \/ ReturnTokenInfo(1)
    \/ RecvAddressList(1, Bodies)
    \/ TaskComplete(1)
    \/ GatherDone(1)
    \/ AfterGather(1)
    \/ LookupStart(1)
    \/ LookupReturn(1)
    \/ LoopDone(1)
    \/ Deliver(1)

Spec == Init /\ [][Next]_vars

\* The service with MaxReqs requests in flight at once.
InitServer ==
    /\ app_state = "starting"
    /\ token_symbol = NoSymbol
    /\ reqs = [r \in 1..MaxReqs |-> Idle]
    /\ call = NoCall
    /\ ret = NoRet

NextServer ==
    \/ lifespan
    \/ \E r \in 1..MaxReqs : RecvTokenInfo(r)
    \/ \E r \in 1..MaxReqs : ReturnTokenInfo(r)
    \/ \E r \in 1..MaxReqs : RecvAddressList(r, SmallBodies)
    \/ \E r \in 1..MaxReqs : TaskComplete(r)
    \/ \E r \in 1..MaxReqs : GatherDone(r)
    \/ \E r \in 1..MaxReqs : AfterGather(r)
    \/ \E r \in 1..MaxReqs : LookupStart(r)
    \/ \E r \in 1..MaxReqs : LookupReturn(r)
    \/ \E r \in 1..MaxReqs : LoopDone(r)
    \/ \E r \in 1..MaxReqs : Deliver(r)

SpecServer == InitServer /\ [][NextServer]_vars

\* Each coroutine called directly, once, on every input.
InitCalls ==
    /\ app_state = "running"
    /\ token_symbol = ChainToken("0xT1").symbol
    /\ reqs = [r \in {1} |-> Idle]
    /\ call \in Calls
    /\ ret = NoRet

NextCalls ==
    \/ CallGetLastTransactionDate
    \/ CallGetTokenInfo

SpecCalls == InitCalls /\ [][NextCalls]_vars

\* ------------------------------------------------------------------ claims
Slots == DOMAIN reqs
AllDone(q) == \A i \in 1..Len(q.tasks) : q.tasks[i].state = "done"
Gathered(q) == q.endpoint \in BatchEndpoints /\ q.pc \in {"gathered", "loop", "responded"}

\* C1: gather returns one balance per input address, the i-th being the result
\* of the fetch of the i-th address, whatever the order of completion.
C1_GatherPositional ==
    \A r \in Slots :
        LET q == reqs[r] IN
        Gathered(q) =>
            /\ Len(q.balances) = Len(q.addresses)
            /\ \A i \in 1..Len(q.addresses) :
                  /\ q.tasks[i].address = q.addresses[i]
                  /\ q.tasks[i].state = "done"
                  /\ q.balances[i] = q.tasks[i].result.val
            /\ (q.pc = "responded" /\ q.endpoint = "get_balance_batch"
                    => q.response.body.balances = q.balances)

\* Three fetches completed in an order other than the input order, with
\* three different results.
C1_Witness ==
    \E r \in Slots :
        LET q == reqs[r] IN
        /\ q.pc = "gathered"
        /\ Len(q.addresses) = 3
        /\ q.completed = <<3, 1, 2>>
        /\ q.balances[1].num = 5 /\ q.balances[2].num = 0 /\ q.balances[3].num = 10

\* C2: a fetch whose address does not normalize or whose remote read fails
\* yields exactly 0 and raises nothing; every other fetch of the batch yields
\* its balance divided by 10 ** 18, and the request is answered with 200.
C2_FailToZero ==
    \A r \in Slots :
        LET q == reqs[r] IN
        q.endpoint \in BatchEndpoints =>
            /\ q.pc # "aborted"
            /\ q.response.status # 500
            /\ \A i \in 1..Len(q.tasks) :
                  q.tasks[i].state = "done" =>
                      LET t == q.tasks[i]
                          checksum == to_checksum_address(q.addresses[i])
                      IN
                      /\ ~t.result.raised
                      /\ IF checksum.raised \/ t.reply.raised
                         THEN t.result.val = [num |-> 0, exp |-> 0]
                         ELSE t.result.val =
                                 [num |-> ChainBalance(checksum.val), exp |-> 18]
            /\ (q.pc = "responded" /\ q.endpoint = "get_balance_batch" =>
                    /\ q.response.status = 200
                    /\ \A i \in 1..Len(q.addresses) :
                          q.response.body.balances[i] = q.tasks[i].result.val)

\* A batch answered with one address that does not normalize, one read that
\* failed and one real balance.
C2_Witness ==
    \E r \in Slots :
        LET q == reqs[r] IN
        /\ q.pc = "responded" /\ q.endpoint = "get_balance_batch"
        /\ q.addresses = <<"0xBb", "bad", "0xAa">>
        /\ q.tasks[1].reply.raised
        /\ q.response.body.balances =
              <<[num |-> 0, exp |-> 0], [num |-> 0, exp |-> 0], [num |-> 5, exp |-> 18]>>

Injective(p) == \A a, b \in DOMAIN p : p[a] = p[b] => a = b

\* C3: get_top answers with the (address, balance) pairs of the request in
\* descending order of balance, equal balances in input order, cut to the
\* first N; all of them when N >= len(addresses).
C3_TopSortedStable ==
    \A r \in Slots :
        LET q == reqs[r]
            n == Len(q.addresses)
        IN
        q.pc = "responded" /\ q.endpoint = "get_top" =>
            LET top == q.response.body.top_addresses IN
            /\ Len(top) <= n
            /\ (q.N >= n => Len(top) = n)
            /\ (q.N >= 0 /\ q.N < n => Len(top) = q.N)
            /\ \E p \in [1..n -> 1..n] :
                  /\ Injective(p)
                  /\ \A k, l \in 1..n :
                        k < l =>
                            /\ q.balances[p[k]].num >= q.balances[p[l]].num
                            /\ (q.balances[p[k]].num = q.balances[p[l]].num => p[k] < p[l])
                  /\ \A k \in 1..Len(top) :
                        top[k] = <<q.addresses[p[k]], q.balances[p[k]]>>

\* Two spellings of one account tie behind a larger balance, and keep their
\* input order.
C3_Witness ==
    \E r \in Slots :
        LET q == reqs[r] IN
        /\ q.pc = "responded" /\ q.endpoint = "get_top"
        /\ q.addresses = <<"0xaa", "0xBb", "0xAa">>
        /\ q.N = 3
        /\ q.response.body.top_addresses =
              << <<"0xBb", [num |-> 10, exp |-> 18]>>,
                 <<"0xaa", [num |-> 5, exp |-> 18]>>,
                 <<"0xAa", [num |-> 5, exp |-> 18]>> >>

\* C4: with N <= 0 get_top answers with no entry, and
\* get_top_with_transactions looks no date up and answers with no entry.
C4_NonPositiveNEmpty ==
    \A r \in Slots :
        LET q == reqs[r] IN
        q.N <= 0 =>
            /\ (q.pc = "responded" /\ q.endpoint = "get_top"
                    => q.response.body.top_addresses = <<>>)
            /\ (q.endpoint = "get_top_with_transactions"
                    => q.inflight = {} /\ q.top_with_transactions = <<>>)

\* What the remote calls of a direct call of get_last_transaction_date gave.
Looked == call.fn = "get_last_transaction_date" /\ ret # NoRet
Normalizes == ~to_checksum_address(call.address).raised
GotResponse == Normalizes /\ ~call.env.head.raised /\ ~call.env.http.raised
Asked(op) == \E i \in 1..Len(ret.calls) : ret.calls[i].op = op

\* C5: a response whose status is not "1", or whose result is empty, gives
\* "No transactions found", and no block is read.
C5_NoLogsSentinel ==
    Looked /\ GotResponse =>
        LET data == call.env.http.val IN
        ("status" \in DOMAIN data /\ (data.status # "1" \/ Len(data.result) = 0)) =>
            /\ ret.out = [raised |-> FALSE, val |-> <<"No transactions found">>]
            /\ ~Asked("eth_getBlockByNumber")
            /\ Asked("getLogs")

\* Status "1" with an empty result.
C5_Witness ==
    /\ Looked /\ GotResponse
    /\ "status" \in DOMAIN call.env.http.val
    /\ call.env.http.val.status = "1"
    /\ call.env.http.val.result = <<>>
    /\ ret.out.val = <<"No transactions found">>

\* datetime.datetime.utcfromtimestamp(ts), the date the timestamp names.
FromTimestamp(ts) ==
    LET days == ts \div 86400
        secs == ts % 86400
        z == days + 719468
        era == z \div 146097
        doe == z - era * 146097
        yoe == (doe - (doe \div 1460) + (doe \div 36524) - (doe \div 146096)) \div 365
        doy == doe - (365 * yoe + (yoe \div 4) - (yoe \div 100))
        mp == (5 * doy + 2) \div 153
        d == doy - ((153 * mp + 2) \div 5) + 1
        m == IF mp < 10 THEN mp + 3 ELSE mp - 9
        y == yoe + era * 400 + (IF m <= 2 THEN 1 ELSE 0)
    IN [year |-> y, month |-> m, day |-> d, hour |-> secs \div 3600,
        minute |-> (secs % 3600) \div 60, second |-> secs % 60]

WellFormed(e) ==
    /\ DOMAIN e = {"blockNumber", "transactionIndex"}
    /\ ~HexInt(e.blockNumber).raised
    /\ ~HexInt(e.transactionIndex).raised

\* The largest block number among well-formed events.
LatestBlock(events) ==
    CHOOSE b \in {HexInt(events[i].blockNumber).val : i \in 1..Len(events)} :
        \A i \in 1..Len(events) : HexInt(events[i].blockNumber).val <= b

\* C6: with a status "1" response of well-formed events and a successful
\* block read, the date of the latest event's block is returned, formatted
\* as YYYY-MM-DD HH:MM:SS.
C6_ReturnsFormattedDate ==
    Looked /\ GotResponse /\ call.env.block =>
        LET data == call.env.http.val IN
        ( /\ "status" \in DOMAIN data
          /\ data.status = "1"
          /\ Len(data.result) > 0
          /\ \A i \in 1..Len(data.result) : WellFormed(data.result[i]) ) =>
            /\ ~ret.out.raised
            /\ ret.out.val =
                  Strftime(FromTimestamp(ChainBlockTimestamp(LatestBlock(data.result))))

TokenInfoCalled == call.fn = "get_token_info" /\ ret # NoRet

\* C7: get_token_info raises nothing; its body is {symbol, name, totalSupply}
\* when the address normalizes and the four reads succeed, and {error}
\* otherwise.
C7_TokenInfoBodies ==
    TokenInfoCalled =>
        LET checksum == to_checksum_address(call.address)
            all == /\ ~checksum.raised
                   /\ call.env.symbol /\ call.env.name
                   /\ call.env.totalSupply /\ call.env.decimals
        IN
        /\ ~ret.out.raised
        /\ IF all
           THEN /\ DOMAIN ret.out.val = {"symbol", "name", "totalSupply"}
                /\ ret.out.val.symbol = ChainToken(checksum.val).symbol
                /\ ret.out.val.name = ChainToken(checksum.val).name
                /\ ret.out.val.totalSupply =
                      [num |-> ChainToken(checksum.val).totalSupply,
                       exp |-> ChainToken(checksum.val).decimals]
           ELSE DOMAIN ret.out.val = {"error"}

\* Only the last read, decimals, fails.
C7_Witness ==
    /\ TokenInfoCalled
    /\ call.address = "0xu2"
    /\ call.env = [symbol |-> TRUE, name |-> TRUE, totalSupply |-> TRUE, decimals |-> FALSE]
    /\ DOMAIN ret.out.val = {"error"}

\* C8: no request is handled before the lifespan has set the symbol, the
\* symbol never changes once set, and every get_balance_batch response
\* carries it.
C8_SymbolFixed ==
    [][ /\ (app_state # "running" => \A r \in Slots : reqs[r].pc = "idle")
        /\ (app_state = "running" => token_symbol' = token_symbol /\ app_state' = "running")
        /\ (app_state' = "running" => token_symbol' # NoSymbol)
        /\ \A r \in Slots :
              reqs'[r].pc = "responded" /\ reqs'[r].endpoint = "get_balance_batch"
                  => reqs'[r].response.body.symbol = token_symbol' ]_vars

\* A batch is answered with the startup symbol while get_token_info has
\* answered another request with another token's symbol.
C8_Witness ==
    \E r, o \in Slots :
        /\ reqs[r].pc = "responded" /\ reqs[r].endpoint = "get_balance_batch"
        /\ reqs[r].response.body.symbol = <<"TKN">>
        /\ reqs[o].pc = "responded" /\ reqs[o].endpoint = "get_token_info"
        /\ "symbol" \in DOMAIN reqs[o].response.body
        /\ reqs[o].response.body.symbol = <<"USD">>

\* A step of get_last_transaction_date that fails in the direct call.
StepFails ==
    \/ ~Normalizes
    \/ call.env.head.raised
    \/ call.env.http.raised
    \/ LET data == call.env.http.val IN
       \/ "status" \notin DOMAIN data
       \/ /\ data.status = "1"
          /\ Len(data.result) > 0
          /\ \/ \E i \in 1..Len(data.result) : ~WellFormed(data.result[i])
             \/ ~call.env.block

\* C9: get_last_transaction_date raises nothing, and returns "Error
\* retrieving transaction date" whenever one of its steps fails.
C9_LookupNeverRaises ==
    Looked =>
        /\ ~ret.out.raised
        /\ (StepFails => ret.out.val = <<"Error retrieving transaction date">>)

\* The block read fails after a response with events.
C9_Witness ==
    /\ Looked /\ GotResponse
    /\ Asked("eth_getBlockByNumber")
    /\ ~call.env.block
    /\ ret.out.val = <<"Error retrieving transaction date">>

\* C10: in get_top_with_transactions a lookup is in flight only after every
\* fetch has finished, one at a time, for the next entry of
\* sorted_addresses[:N] in rank order; the entries answered are those
\* entries in the same order, each with its address, balance and date.
C10_LookupsSequential ==
    \A r \in Slots :
        LET q == reqs[r]
            out == q.top_with_transactions
        IN
        q.endpoint = "get_top_with_transactions" =>
            /\ q.pc # "aborted"
            /\ (q.inflight # {} \/ out # <<>> => AllDone(q) /\ q.pc \in {"loop", "responded"})
            /\ Cardinality(q.inflight) <= 1
            /\ q.inflight \subseteq {Len(out) + 1}
            /\ Len(out) + Cardinality(q.inflight) <= Len(q.sorted_addresses)
            /\ (q.N >= 0 => Len(out) + Cardinality(q.inflight) <= q.N)
            /\ \A k \in 1..Len(out) :
                  /\ out[k][1] = q.sorted_addresses[k][1]
                  /\ out[k][2] = q.sorted_addresses[k][2]
                  /\ Len(out[k]) = 3
            /\ \A k \in 1..(Len(q.sorted_addresses) - 1) :
                  q.sorted_addresses[k][2].num >= q.sorted_addresses[k + 1][2].num
            /\ (q.pc = "responded" =>
                    /\ q.response.body.top_addresses_with_transactions = out
                    /\ (q.N >= 0 => Len(out) = Min(q.N, Len(q.addresses))))

\* The second lookup is in flight after the first has returned.
C10_Witness ==
    \E r \in Slots :
        LET q == reqs[r] IN
        /\ q.endpoint = "get_top_with_transactions"
        /\ q.pc = "loop"
        /\ Len(q.addresses) = 3
        /\ Len(q.top_with_transactions) = 1
        /\ q.inflight = {2}

====
